---- MODULE Spec2Model ----
(***************************************************************************)
(* Scanner Router API (src/index.js): a raw scanned string is turned into  *)
(* an ordered list of identifier candidates (extractCandidates), each      *)
(* candidate is resolved against the Shopify Admin GraphQL API by a fixed  *)
(* cascade of lookups (resolveHandleFromCode), and the two routes          *)
(* GET /scan-lookup and GET /r answer with the first hit or with a search  *)
(* fallback.                                                               *)
(*                                                                         *)
(* Strings are sequences of one-character strings, so that trimming,       *)
(* classification, URL parsing, encodeURIComponent and split("/").pop()    *)
(* are computed character by character as the JavaScript does.             *)
(***************************************************************************)
EXTENDS Integers, Sequences, FiniteSets, TLC

VARIABLES
    op,          \* op[r]: the route of request r, "scan-lookup" or "r"
    raw,         \* raw[r]: req.query.raw (the empty string when missing)
    pc,          \* pc[r]: "start", "await" (suspended in adminGQL), "done"
    candidates,  \* candidates[r]: const candidates = extractCandidates(raw)
    ci,          \* ci[r]: index in candidates of the for-of loop's cand
    inflight,    \* inflight[r]: the adminGQL call request r is awaiting
    calls,       \* calls[r]: the adminGQL calls of request r that returned
    response     \* response[r]: what the route sent on res

vars == <<op, raw, pc, candidates, ci, inflight, calls, response>>

-----------------------------------------------------------------------------
(* Characters and elementary string functions                              *)

Digits == {"0", "1", "2", "3", "4", "5", "6", "7", "8", "9"}

Lower == {"a", "b", "c", "d", "e", "f", "g", "h", "i", "j", "k", "l", "m",
          "n", "o", "p", "q", "r", "s", "t", "u", "v", "w", "x", "y", "z"}

Upper == {"A", "B", "C", "D", "E", "F", "G", "H", "I", "J", "K", "L", "M",
          "N", "O", "P", "Q", "R", "S", "T", "U", "V", "W", "X", "Y", "Z"}

\* The class [A-Z0-9._-] under the i flag.
CodeChars == Digits \cup Lower \cup Upper \cup {".", "_", "-"}

\* White space as String.prototype.trim() sees it (the characters the
\* inputs below can hold).
WhiteSpace == {" "}

UpperSeq == <<"A", "B", "C", "D", "E", "F", "G", "H", "I", "J", "K", "L", "M", "N", "O", "P", "Q", "R", "S", "T", "U", "V", "W", "X", "Y", "Z">>
LowerSeq == <<"a", "b", "c", "d", "e", "f", "g", "h", "i", "j", "k", "l", "m", "n", "o", "p", "q", "r", "s", "t", "u", "v", "w", "x", "y", "z">>

LowerOf(c) ==
    IF c \in Upper
    THEN LowerSeq[CHOOSE i \in 1..Len(UpperSeq) : UpperSeq[i] = c]
    ELSE c

ToLower(s) == [i \in 1..Len(s) |-> LowerOf(s[i])]

AllIn(s, set) == \A i \in 1..Len(s) : s[i] \in set

StartsWith(s, p) == Len(s) >= Len(p) /\ SubSeq(s, 1, Len(p)) = p

\* s from position i on (1-based); empty when i is past the end.
From(s, i) == SubSeq(s, i, Len(s))

\* The least position >= 1 of s holding a character of set, or Len(s)+1.
FirstIn(s, set) ==
    IF \E i \in 1..Len(s) : s[i] \in set
    THEN CHOOSE i \in 1..Len(s) : s[i] \in set /\ \A j \in 1..(i-1) : s[j] \notin set
    ELSE Len(s) + 1

RECURSIVE TrimStart(_)
TrimStart(s) ==
    IF s # <<>> /\ Head(s) \in WhiteSpace THEN TrimStart(Tail(s)) ELSE s

RECURSIVE TrimEnd(_)
TrimEnd(s) ==
    IF s # <<>> /\ s[Len(s)] \in WhiteSpace
    THEN TrimEnd(SubSeq(s, 1, Len(s) - 1))
    ELSE s

\* String.prototype.trim()
Trim(s) == TrimEnd(TrimStart(s))

\* s.split(sep) for a one-character separator: the pieces, empty ones included.
RECURSIVE Split(_, _)
Split(s, sep) ==
    LET i == FirstIn(s, {sep})
    IN  IF i > Len(s) THEN <<s>>
        ELSE <<SubSeq(s, 1, i - 1)>> \o Split(From(s, i + 1), sep)

\* .filter(Boolean) on an array of strings: the non-empty ones, in order.
FilterNonEmpty(xs) == SelectSeq(xs, LAMBDA x : x # <<>>)

-----------------------------------------------------------------------------
(* Code classifier (src/index.js:31-44)                                    *)

EanShort == 8
EanLongMin == 12
EanLongMax == 14
ModelMin == 6
ModelMax == 8
\* Mutant: the SKU pattern asks for more characters than the shortest model code.
SkuMinAboveModelMin == ModelMin + 1

SkuMin == 5

\* /^\d{8}$|^\d{12,14}$/.test(s.trim())
isEAN(s) ==
    LET t == Trim(s)
    IN  /\ AllIn(t, Digits)
        /\ \/ Len(t) = EanShort
           \/ (Len(t) >= EanLongMin /\ Len(t) <= EanLongMax)

\* /^\d{6,8}$/.test(s.trim())
isModel(s) ==
    LET t == Trim(s)
    IN  AllIn(t, Digits) /\ Len(t) >= ModelMin /\ Len(t) <= ModelMax

\* /^[A-Z0-9._-]{5,}$/i.test(s.trim())
isSKU(s) ==
    LET t == Trim(s)
    IN  AllIn(t, CodeChars) /\ Len(t) >= SkuMin

\* /^https?:\/\//i.test(s.trim())
isURL(s) ==
    LET t == ToLower(Trim(s))
    IN  StartsWith(t, <<"h", "t", "t", "p", ":", "/", "/">>) \/ StartsWith(t, <<"h", "t", "t", "p", "s", ":", "/", "/">>)

-----------------------------------------------------------------------------
(* new URL(s): the parts of the WHATWG URL parser the extractor reads, for *)
(* http(s) URLs without userinfo, backslashes or dot segments.             *)

Range(xs) == {xs[i] : i \in 1..Len(xs)}

RECURSIVE SkipSlashes(_)
SkipSlashes(s) == IF s # <<>> /\ Head(s) = "/" THEN SkipSlashes(Tail(s)) ELSE s

\* Forbidden host code points (of the characters the inputs can hold).
ForbiddenHostChars == {" ", "#", "/", ":", "?", "@"}

\* What follows "http:" or "https:", its leading slashes skipped.
AfterScheme(s) == SkipSlashes(From(s, FirstIn(s, {":"}) + 1))

Authority(s) ==
    LET rest == AfterScheme(s)
    IN  SubSeq(rest, 1, FirstIn(rest, {"/", "?", "#"}) - 1)

\* new URL(s) throws TypeError: the host is empty ("https://") or holds a
\* forbidden code point, or the port is no number.
UrlThrows(s) ==
    LET auth == Authority(s)
        c    == FirstIn(auth, {":"})
        host == SubSeq(auth, 1, c - 1)
        port == From(auth, c + 1)
    IN  \/ host = <<>>
        \/ \E i \in 1..Len(host) : host[i] \in ForbiddenHostChars
        \/ ~AllIn(port, Digits)

\* Percent-encoding of the path and fragment states: a space becomes %20.
RECURSIVE UrlEncodeSpaces(_)
UrlEncodeSpaces(s) ==
    IF s = <<>> THEN <<>>
    ELSE (IF Head(s) = " " THEN <<"%", "2", "0">> ELSE <<Head(s)>>) \o UrlEncodeSpaces(Tail(s))

\* From the first "/" after the authority on.
AfterAuthority(s) ==
    LET rest == AfterScheme(s)
    IN  From(rest, FirstIn(rest, {"/", "?", "#"}))

\* u.pathname
Pathname(s) ==
    LET rest == AfterAuthority(s)
        p    == SubSeq(rest, 1, FirstIn(rest, {"?", "#"}) - 1)
    IN  IF p = <<>> THEN <<"/">> ELSE UrlEncodeSpaces(p)

\* The query string without its "?" (u.search.slice(1)).
Query(s) ==
    LET rest == AfterAuthority(s)
        tail == From(rest, FirstIn(rest, {"?", "#"}))
    IN  IF tail # <<>> /\ Head(tail) = "?"
        THEN SubSeq(tail, 2, FirstIn(tail, {"#"}) - 1)
        ELSE <<>>

\* u.hash: "#" and the fragment, or "" when the fragment is empty.
Hash(s) ==
    LET rest == AfterAuthority(s)
        frag == UrlEncodeSpaces(From(rest, FirstIn(rest, {"#"}) + 1))
    IN  IF frag = <<>> THEN <<>> ELSE <<"#">> \o frag

\* application/x-www-form-urlencoded decoding of a name or value: "+" is a
\* space, then percent-decoding (of %20 and %2B, the escapes the inputs hold).
RECURSIVE FormDecode(_)
FormDecode(s) ==
    IF s = <<>> THEN <<>>
    ELSE IF Head(s) = "+" THEN <<" ">> \o FormDecode(Tail(s))
    ELSE IF StartsWith(s, <<"%", "2", "0">>) THEN <<" ">> \o FormDecode(From(s, 4))
    ELSE IF StartsWith(s, <<"%", "2", "B">>) THEN <<"+">> \o FormDecode(From(s, 4))
    ELSE <<Head(s)>> \o FormDecode(Tail(s))

\* The name=value pairs of the query, in order, decoded.
SearchParams(s) ==
    LET pieces == FilterNonEmpty(Split(Query(s), "&"))
    IN  [i \in 1..Len(pieces) |->
            LET e == FirstIn(pieces[i], {"="})
            IN  [name  |-> FormDecode(SubSeq(pieces[i], 1, e - 1)),
                 value |-> FormDecode(From(pieces[i], e + 1))]]

\* u.searchParams.get(k): the value of the first pair named k; null (here the
\* empty string, falsy as well) when there is none.
SearchParamsGet(s, k) ==
    LET ps == SearchParams(s)
    IN  IF \E i \in 1..Len(ps) : ps[i].name = k
        THEN ps[CHOOSE i \in 1..Len(ps) :
                    ps[i].name = k /\ \A j \in 1..(i-1) : ps[j].name # k].value
        ELSE <<>>

-----------------------------------------------------------------------------
(* Candidate extractor (src/index.js:52-100)                               *)

candKeys == << <<"e", "a", "n">>, <<"g", "t", "i", "n">>, <<"b", "a", "r", "c", "o", "d", "e">>, <<"s", "k", "u">>, <<"m", "o", "d", "e", "l">>, <<"c", "o", "d", "e">>, <<"i", "d">> >>

fragKeys == { <<"e", "a", "n">>, <<"g", "t", "i", "n">>, <<"b", "a", "r", "c", "o", "d", "e">>, <<"s", "k", "u">>, <<"m", "o", "d", "e", "l">>, <<"c", "o", "d", "e">> }

\* Mutant: an array push in place of the Set, a value present is added again.
SetAddAlways(out, v) == Append(out, v)

\* out.add(v) on a Set: insertion order, a value already present is kept once.
SetAdd(out, v) == IF v \in Range(out) THEN out ELSE Append(out, v)

\* candKeys.forEach(k => { const v = u.searchParams.get(k); if (v) out.add(v.trim()); })
RECURSIVE AddParams(_, _, _)
AddParams(out, s, keys) ==
    IF keys = <<>> THEN out
    ELSE LET v == SearchParamsGet(s, Head(keys))
         IN  AddParams(IF v # <<>> THEN SetAdd(out, Trim(v)) ELSE out, s, Tail(keys))

\* const segs = u.pathname.split("/").filter(Boolean); the last one is added
\* if it matches /^[A-Z0-9._-]+$/i.
AddLastSegment(out, s) ==
    LET segs == FilterNonEmpty(Split(Pathname(s), "/"))
    IN  IF Len(segs) > 0 /\ AllIn(segs[Len(segs)], CodeChars)
        THEN SetAdd(out, segs[Len(segs)])
        ELSE out

\* A match of /(ean|gtin|barcode|sku|model|code)=([A-Z0-9._-]+)/i starts at i.
FragMatchAt(frag, i) ==
    \E k \in fragKeys :
        /\ i + Len(k) + 1 <= Len(frag)
        /\ ToLower(SubSeq(frag, i, i + Len(k) - 1)) = k
        /\ frag[i + Len(k)] = "="
        /\ frag[i + Len(k) + 1] \in CodeChars

\* m[2] of frag.match(...): the greedy group of the leftmost match; the empty
\* string stands for m = null (m[2] is never empty).
FragMatch(frag) ==
    IF \E i \in 1..Len(frag) : FragMatchAt(frag, i)
    THEN LET i == CHOOSE i \in 1..Len(frag) :
                      FragMatchAt(frag, i) /\ \A j \in 1..(i-1) : ~FragMatchAt(frag, j)
             k == CHOOSE k \in fragKeys :
                      /\ i + Len(k) + 1 <= Len(frag)
                      /\ ToLower(SubSeq(frag, i, i + Len(k) - 1)) = k
                      /\ frag[i + Len(k)] = "="
             v == From(frag, i + Len(k) + 1)
             e == CHOOSE e \in 1..Len(v) :
                      /\ AllIn(SubSeq(v, 1, e), CodeChars)
                      /\ (e = Len(v) \/ v[e + 1] \notin CodeChars)
         IN  SubSeq(v, 1, e)
    ELSE <<>>

\* const frag = u.hash.replace(/^#/, ""); const m = frag.match(...); if (m) out.add(m[2]);
AddFragment(out, s) ==
    LET h    == Hash(s)
        frag == IF h # <<>> /\ Head(h) = "#" THEN Tail(h) ELSE h
        m2   == FragMatch(frag)
    IN  IF m2 # <<>> THEN SetAdd(out, m2) ELSE out

\* The body of the try block; the catch block is empty, so a throwing
\* new URL(s) leaves out as it was (empty).
FromURL(s) ==
    IF UrlThrows(s) THEN <<>>
    ELSE AddFragment(AddLastSegment(AddParams(<<>>, s, candKeys), s), s)

\* const score = (x) => (isEAN(x) ? 3 : isSKU(x) ? 2 : isModel(x) ? 1 : 0)
score(x) == IF isEAN(x) THEN 3 ELSE IF isSKU(x) THEN 2 ELSE IF isModel(x) THEN 1 ELSE 0

\* x inserted after every element y with score(b) - score(a) <= 0 for a = y,
\* b = x, i.e. before the first element of strictly smaller score.
RECURSIVE Insert(_, _)
Insert(sorted, x) ==
    IF sorted = <<>> THEN <<x>>
    ELSE IF score(x) - score(Head(sorted)) > 0 THEN <<x>> \o sorted
    ELSE <<Head(sorted)>> \o Insert(Tail(sorted), x)

RECURSIVE InsertAll(_, _)
InsertAll(sorted, list) ==
    IF list = <<>> THEN sorted ELSE InsertAll(Insert(sorted, Head(list)), Tail(list))

\* Mutant: the list is returned in extraction order, the sort left out.
SortByScoreOmitted(list) == list

\* list.sort((a, b) => score(b) - score(a)): Array.prototype.sort is stable.
SortByScore(list) == InsertAll(<<>>, list)

\* Mutant: the raw input added as it came, not its trimmed form s.
extractCandidatesUntrimmed(r) ==
    IF r = <<>> THEN <<>>
    ELSE LET s   == Trim(r)
             out == IF isURL(s) THEN FromURL(s) ELSE <<r>>
         IN  SortByScore(out)

extractCandidates(r) ==
    IF r = <<>> THEN <<>>
    ELSE LET s   == Trim(r)
             out == IF isURL(s) THEN FromURL(s) ELSE <<s>>
         IN  SortByScore(out)

-----------------------------------------------------------------------------
(* Catalog Gateway (src/index.js:104-146)                                  *)

\* What one adminGQL call can come to.  kind "transport" is fetch() or
\* r.json() rejecting, "errors" is a response with an errors field (adminGQL
\* throws), "data" is j.data.  Of the data only edges[0].node is read: its
\* handle (empty: no edge) and its variant id (the node's own id for
\* Q_VARIANT_BY_QUERY, variants.edges[0]?.node?.id for Q_PRODUCTS_BY_QUERY,
\* which is undefined for a product without variant: hasVariantId FALSE).
Outcome(kind, handle, hasVariantId, variantId) ==
    [kind |-> kind, handle |-> handle,
     hasVariantId |-> hasVariantId, variantId |-> variantId]

Handles == { <<"s", "o", "m", "e", "-", "p", "r", "o", "d", "u", "c", "t">> }

VariantIds == { <<"g", "i", "d", ":", "/", "/", "s", "h", "o", "p", "i", "f", "y", "/", "P", "r", "o", "d", "u", "c", "t", "V", "a", "r", "i", "a", "n", "t", "/", "1", "2", "3", "4", "5">> }

Failures ==
    { Outcome("transport", <<>>, FALSE, <<>>), Outcome("errors", <<>>, FALSE, <<>>) }

NoEdge == Outcome("data", <<>>, FALSE, <<>>)

Outcomes(doc) ==
    Failures \cup {NoEdge}
      \cup {Outcome("data", h, TRUE, v) : h \in Handles, v \in VariantIds}
      \cup (IF doc = "Q_PRODUCTS_BY_QUERY"
            THEN {Outcome("data", h, FALSE, <<>>) : h \in Handles}
            ELSE {})

-----------------------------------------------------------------------------
(* Resolver (src/index.js:155-204)                                         *)

\* Mutant: the Model lookups moved in front of the sku lookup.
StrategiesModelFirst == <<"barcode", "tag:model", "search:model", "sku", "search:any">>

\* The lookups of resolveHandleFromCode in program order; the name of each is
\* the source tag it returns.
Strategies == <<"barcode", "sku", "tag:model", "search:model", "search:any">>

\* Mutant: the last free-text lookup skipped for a Model-shaped code, which
\* has just had the same lookup.
AppliesAnyUnlessModel(st, c) ==
    CASE st = "barcode"      -> isEAN(c)
      [] st = "sku"          -> isSKU(c)
      [] st = "tag:model"    -> isModel(c)
      [] st = "search:model" -> isModel(c)
      [] st = "search:any"   -> ~isModel(c)

\* The condition under which the code reaches the lookup at all.
Applies(st, c) ==
    CASE st = "barcode"      -> isEAN(c)
      [] st = "sku"          -> isSKU(c)
      [] st = "tag:model"    -> isModel(c)
      [] st = "search:model" -> isModel(c)
      [] st = "search:any"   -> TRUE

QueryDoc(st) ==
    IF st \in {"barcode", "sku"} THEN "Q_VARIANT_BY_QUERY" ELSE "Q_PRODUCTS_BY_QUERY"

\* The variable q of the lookup.
QueryString(st, c) ==
    CASE st = "barcode"      -> <<"b", "a", "r", "c", "o", "d", "e", ":">> \o c
      [] st = "sku"          -> <<"s", "k", "u", ":">> \o c
      [] st = "tag:model"    -> <<"t", "a", "g", ":">> \o <<"\"">> \o <<"M", "o", "d", "e", "l", ":", " ">> \o c \o <<"\"">>
      [] st = "search:model" -> c
      [] st = "search:any"   -> c

\* The index in Strategies of the lookup the code issues after lookup k of
\* candidate code returned no handle (k = 0: on entry); 0 when the function
\* returns null.
NextStrategy(code, k) ==
    LET c    == Trim(code)
        rest == {j \in (k+1)..Len(Strategies) : Applies(Strategies[j], c)}
    IN  IF rest = {} THEN 0 ELSE CHOOSE j \in rest : \A m \in rest : j <= m

NoCall == [cand |-> 0, strategy |-> "none", doc |-> "none", q |-> <<>>]

Call(i, code, j) ==
    [cand |-> i, strategy |-> Strategies[j],
     doc |-> QueryDoc(Strategies[j]), q |-> QueryString(Strategies[j], Trim(code))]

StrategyIndex(st) == CHOOSE j \in 1..Len(Strategies) : Strategies[j] = st

-----------------------------------------------------------------------------
(* Routes (src/index.js:216-275)                                           *)

Base == <<"h", "t", "t", "p", "s", ":", "/", "/", "d", "e", "c", "a", "t", "h", "l", "o", "n", ".", "r", "e">>

\* Characters encodeURIComponent leaves alone.
Unreserved == CodeChars \cup {"!", "~", "*", "'", "(", ")"}

\* The escape of a reserved ASCII character (of the characters the inputs
\* can hold).
Escape(c) ==
    CASE c = " " -> <<"%", "2", "0">> [] c = "/" -> <<"%", "2", "F">> [] c = ":" -> <<"%", "3", "A">>
      [] c = "?" -> <<"%", "3", "F">> [] c = "=" -> <<"%", "3", "D">> [] c = "&" -> <<"%", "2", "6">>
      [] c = "#" -> <<"%", "2", "3">> [] c = "+" -> <<"%", "2", "B">> [] c = "%" -> <<"%", "2", "5">>

RECURSIVE encodeURIComponent(_)
encodeURIComponent(s) ==
    IF s = <<>> THEN <<>>
    ELSE (IF Head(s) \in Unreserved THEN <<Head(s)>> ELSE Escape(Head(s)))
           \o encodeURIComponent(Tail(s))

\* Mutant: the raw input put in the URL without encodeURIComponent.
SearchUrlUnencoded(r) == Base \o <<"/", "s", "e", "a", "r", "c", "h", "?", "q", "=">> \o Trim(r)

\* `https://decathlon.re/search?q=${encodeURIComponent(String(raw).trim())}`
SearchUrl(r) == Base \o <<"/", "s", "e", "a", "r", "c", "h", "?", "q", "=">> \o encodeURIComponent(Trim(r))

\* result.variantId?.split("/").pop(); the empty string stands for undefined
\* (both are falsy).
VariantIdShort(o) ==
    IF o.hasVariantId
    THEN LET parts == Split(o.variantId, "/") IN parts[Len(parts)]
    ELSE <<>>

\* Mutant: the ternary left out, ?variant= appended whatever variantIdShort is.
ProductUrlAlwaysVariant(o) ==
    Base \o <<"/", "p", "r", "o", "d", "u", "c", "t", "s", "/">> \o o.handle \o <<"?", "v", "a", "r", "i", "a", "n", "t", "=">> \o VariantIdShort(o)

\* const url = variantIdShort ? `.../products/${handle}?variant=${variantIdShort}`
\*                            : `.../products/${handle}`
ProductUrl(o) ==
    IF VariantIdShort(o) # <<>>
    THEN Base \o <<"/", "p", "r", "o", "d", "u", "c", "t", "s", "/">> \o o.handle \o <<"?", "v", "a", "r", "i", "a", "n", "t", "=">> \o VariantIdShort(o)
    ELSE Base \o <<"/", "p", "r", "o", "d", "u", "c", "t", "s", "/">> \o o.handle

NoResponse ==
    [status |-> 0, error |-> "", handle |-> <<>>, hasVariantId |-> FALSE,
     variantId |-> <<>>, source |-> "", url |-> <<>>, tried |-> <<>>]

\* res.status(400).json({ error: "Missing raw param" }) / .send("Missing raw")
MissingRaw(o) ==
    [NoResponse EXCEPT !.status = 400,
                       !.error = IF o = "scan-lookup" THEN "Missing raw param" ELSE "Missing raw"]

\* res.json({ ...result, url, tried: candidates }), result being
\* { handle, variantId, source } of the lookup st that matched.
FoundJson(out, st, cands) ==
    [NoResponse EXCEPT !.status = 200, !.handle = out.handle, !.source = st,
                       !.hasVariantId = out.hasVariantId, !.variantId = out.variantId,
                       !.url = ProductUrl(out), !.tried = cands]

\* res.json({ handle: null, url: ..., source: "fallback:search", tried: candidates })
FallbackJson(r, cands) ==
    [NoResponse EXCEPT !.status = 200, !.source = "fallback:search",
                       !.url = SearchUrl(r), !.tried = cands]

\* res.status(500).json({ error: "lookup_failed" })
LookupFailed == [NoResponse EXCEPT !.status = 500, !.error = "lookup_failed"]

\* res.redirect(302, url)
RedirectTo(url) == [NoResponse EXCEPT !.status = 302, !.url = url]

\* What each route answers when a lookup returned a handle, when the
\* candidates are exhausted, and in its catch block.
OnFound(route, out, st, cands) ==
    IF route = "scan-lookup" THEN FoundJson(out, st, cands) ELSE RedirectTo(ProductUrl(out))

\* Mutant: an empty candidate list answered as a failed lookup.
OnExhaustedEmptyFails(route, r, cands) ==
    IF cands = <<>> THEN LookupFailed
    ELSE IF route = "scan-lookup" THEN FallbackJson(r, cands) ELSE RedirectTo(SearchUrl(r))

OnExhausted(route, r, cands) ==
    IF route = "scan-lookup" THEN FallbackJson(r, cands) ELSE RedirectTo(SearchUrl(r))

\* Mutant: the catch block of /scan-lookup answers like the one of /r.
OnCaughtRedirects(route, r) == RedirectTo(SearchUrl(r))

\* Mutant: the catch block of /r answers like the one of /scan-lookup.
OnCaughtFails(route, r) == LookupFailed

OnCaught(route, r) ==
    IF route = "scan-lookup" THEN LookupFailed ELSE RedirectTo(SearchUrl(r))

\* Mutant: the loop steps over the candidate that follows an exhausted one.
NextCandSkips(cands, i, k) ==
    IF i <= Len(cands) /\ NextStrategy(cands[i], k) # 0 THEN i ELSE i + 2

\* The candidate whose resolution the for-of loop runs next, lookup k of
\* candidate i having returned no handle: i itself while resolveHandleFromCode
\* has a lookup left for it, else (it returned null) the next one.
NextCand(cands, i, k) ==
    IF i <= Len(cands) /\ NextStrategy(cands[i], k) # 0 THEN i ELSE i + 1

\* The handler runs on from lookup k of candidate i (k = 0, i = 1: from the
\* start of the loop) to its next await, or to its response.
RunLoop(r, cands, i, k) ==
    LET i2 == NextCand(cands, i, k)
        j2 == IF i2 = i THEN NextStrategy(cands[i], k)
              ELSE IF i2 <= Len(cands) THEN NextStrategy(cands[i2], 0) ELSE 0
    IN  IF j2 # 0
        THEN /\ pc' = [pc EXCEPT ![r] = "await"]
             /\ ci' = [ci EXCEPT ![r] = i2]
             /\ inflight' = [inflight EXCEPT ![r] = Call(i2, cands[i2], j2)]
             /\ UNCHANGED response
        ELSE /\ pc' = [pc EXCEPT ![r] = "done"]
             /\ ci' = [ci EXCEPT ![r] = i2]
             /\ inflight' = [inflight EXCEPT ![r] = NoCall]
             /\ response' = [response EXCEPT ![r] = OnExhausted(op[r], raw[r], cands)]

\* Mutant: candidates declared once at module level, so that every request
\* in progress sees the list of the request that entered last.
StoreCandidatesShared(r, cands) == [q \in DOMAIN candidates |-> cands]

\* const candidates = extractCandidates(raw): a local of the handler's call.
StoreCandidates(r, cands) == [candidates EXCEPT ![r] = cands]

\* Mutant: the test if (!raw) left out of the handlers.
EnterUnchecked(r) ==
    /\ candidates' = StoreCandidates(r, extractCandidates(raw[r]))
    /\ RunLoop(r, candidates'[r], 1, 0)
    /\ UNCHANGED <<op, raw, calls>>

\* A handler from its entry to its first await or its response.
Enter(r) ==
    IF raw[r] = <<>>
    THEN /\ pc' = [pc EXCEPT ![r] = "done"]
         /\ response' = [response EXCEPT ![r] = MissingRaw(op[r])]
         /\ UNCHANGED <<op, raw, candidates, ci, inflight, calls>>
    ELSE /\ candidates' = StoreCandidates(r, extractCandidates(raw[r]))
         /\ RunLoop(r, candidates'[r], 1, 0)
         /\ UNCHANGED <<op, raw, calls>>

\* app.get("/scan-lookup", ...)
ScanLookup(r) == pc[r] = "start" /\ op[r] = "scan-lookup" /\ Enter(r)

\* app.get("/r", ...)
Redirect(r) == pc[r] = "start" /\ op[r] = "r" /\ Enter(r)

Returned(r, o) == Append(calls[r], [call |-> inflight[r], outcome |-> o])

\* The awaited adminGQL call returns j.data: the handler answers if the
\* node has a handle, and runs on to its next lookup otherwise.
AdminGQLReturns(r) ==
    /\ pc[r] = "await"
    /\ \E o \in Outcomes(inflight[r].doc) :
        /\ o.kind = "data"
        /\ calls' = [calls EXCEPT ![r] = Returned(r, o)]
        /\ IF o.handle # <<>>
           THEN /\ pc' = [pc EXCEPT ![r] = "done"]
                /\ inflight' = [inflight EXCEPT ![r] = NoCall]
                /\ response' = [response EXCEPT ![r] =
                       OnFound(op[r], o, inflight[r].strategy, candidates[r])]
                /\ UNCHANGED ci
           ELSE RunLoop(r, candidates[r], ci[r], StrategyIndex(inflight[r].strategy))
    /\ UNCHANGED <<op, raw, candidates>>

\* Mutant: the exception caught inside the loop, the failed lookup taken for
\* one that found nothing.
AdminGQLThrowsContinues(r) ==
    /\ pc[r] = "await"
    /\ \E o \in Failures :
        /\ calls' = [calls EXCEPT ![r] = Returned(r, o)]
        /\ RunLoop(r, candidates[r], ci[r], StrategyIndex(inflight[r].strategy))
    /\ UNCHANGED <<op, raw, candidates>>

\* Mutant: no catch block around the loop: the rejection is unhandled and the
\* request is never answered.
AdminGQLThrowsUnhandled(r) ==
    /\ pc[r] = "await"
    /\ \E o \in Failures : calls' = [calls EXCEPT ![r] = Returned(r, o)]
    /\ pc' = [pc EXCEPT ![r] = "rejected"]
    /\ inflight' = [inflight EXCEPT ![r] = NoCall]
    /\ UNCHANGED <<op, raw, candidates, ci, response>>

\* The awaited adminGQL call throws (fetch or r.json() rejects, or the
\* response has an errors field): the exception reaches the route's catch.
AdminGQLThrows(r) ==
    /\ pc[r] = "await"
    /\ \E o \in Failures :
        /\ calls' = [calls EXCEPT ![r] = Returned(r, o)]
        /\ response' = [response EXCEPT ![r] = OnCaught(op[r], raw[r])]
    /\ pc' = [pc EXCEPT ![r] = "done"]
    /\ inflight' = [inflight EXCEPT ![r] = NoCall]
    /\ UNCHANGED <<op, raw, candidates, ci>>

-----------------------------------------------------------------------------
(* Inputs                                                                  *)

MaxParams == 1

Routes == {"scan-lookup", "r"}

\* Bare codes and free text, padded or not; the empty string is a missing
\* raw parameter.
PlainInputs ==
    { <<>>, <<" ">>, <<"1", "2", "3", "4", "5", "6", "7", "8">>, <<"1", "2", "3", "4", "5", "6">>, <<" ", "1", "2", "3", "4", "5", "6", " ">>, <<"A", "B", "-", "1", "2">>, <<"1", "2", "3">>,
      <<"6", "4", "0", "1", "2", "3", "4">>, <<"3", "6", "0", "8", "4", "5", "9", "6", "9", "3", "1", "3", "5">>, <<"a", " ", "b">> }

\* URL-shaped text that is not one of the composed URLs below.
OddUrls ==
    { <<"h", "t", "t", "p", "s", ":", "/", "/">>, <<"H", "T", "T", "P", ":", "/", "/", "d", ".", "r", "e", "/", "p", "/", "1", "2", "3", "4", "5", "6">>, <<" ", "h", "t", "t", "p", "s", ":", "/", "/", "d", ".", "r", "e", "/", "p", "/", "1", "2", "3", "4", "5", "6", "7", "8", " ">>,
      <<"h", "t", "t", "p", "s", ":", "/", "/", "d", "e", "c", "a", "t", "h", "l", "o", "n", ".", "r", "e", "/", "p", "/", "3", "6", "0", "8", "4", "5", "9", "6", "9", "3", "1", "3", "5">>,
      <<"h", "t", "t", "p", "s", ":", "/", "/", "s", "h", "o", "p", ".", "e", "x", "a", "m", "p", "l", "e", "/", "p", "/", "1", "2", "3", "?", "e", "a", "n", "=", "3", "6", "0", "8", "4", "5", "9", "6", "9", "3", "1", "3", "5">>,
      <<"h", "t", "t", "p", "s", ":", "/", "/", "d", " ", "r", "e", "/", "p", "/", "1", "2", "3", "4", "5", "6">>, <<"h", "t", "t", "p", "s", ":", "/", "/", "d", ".", "r", "e", "/", "a", " ", "b">>, <<"h", "t", "t", "p", "s", ":", "/", "/", "d", ".", "r", "e", "/", "p", "/", "?", "i", "d", "=", "%", "2", "0">> }

UrlPaths == { <<>>, <<"/", "p", "/", "1", "2", "3", "4", "5", "6", "7", "8">>, <<"/", "1", "2", "3">> }

UrlParams == { <<"e", "a", "n", "=", "1", "2", "3", "4", "5", "6", "7", "8">>, <<"i", "d", "=", "1", "2", "3", "4", "5", "6">>, <<"s", "k", "u", "=", "+">>, <<"c", "o", "d", "e", "=", "1", "2", "3">>, <<"x", "=", "A", "B", "-", "1", "2">> }

UrlFragments == { <<>>, <<"#", "c", "o", "d", "e", "=", "A", "B", "-", "1", "2">>, <<"#", "X", "s", "k", "u", "=", "1", "2", "3", "4", "5", "6", "&", "z">> }

\* The query strings of at most n parameters.
RECURSIVE QueryStrings(_)
QueryStrings(n) ==
    IF n = 0 THEN { <<>> }
    ELSE QueryStrings(n - 1) \cup
         { (IF qs = <<>> THEN <<"?">> \o p ELSE qs \o <<"&">> \o p) :
               qs \in QueryStrings(n - 1), p \in UrlParams }

ComposedUrls ==
    { <<"h", "t", "t", "p", "s", ":", "/", "/", "d", ".", "r", "e">> \o p \o qs \o f :
          p \in UrlPaths, qs \in QueryStrings(MaxParams), f \in UrlFragments }

RawInputs == PlainInputs \cup OddUrls \cup ComposedUrls

-----------------------------------------------------------------------------
(* Specification                                                           *)

InitWith(R, inputs) ==
    /\ op \in [R -> Routes]
    /\ raw \in [R -> inputs]
    /\ pc = [r \in R |-> "start"]
    /\ candidates = [r \in R |-> <<>>]
    /\ ci = [r \in R |-> 0]
    /\ inflight = [r \in R |-> NoCall]
    /\ calls = [r \in R |-> <<>>]
    /\ response = [r \in R |-> NoResponse]

InitOn(R) == InitWith(R, RawInputs)

\* One request.
Init == InitOn({1})

Requests == DOMAIN pc

Next ==
    \E r \in Requests :
        \/ ScanLookup(r)
        \/ Redirect(r)
        \/ AdminGQLReturns(r)
        \/ AdminGQLThrows(r)

Spec == Init /\ [][Next]_vars

\* An adminGQL call in flight comes back, with data or with a failure.
GatewayAnswers == \E r \in Requests : AdminGQLReturns(r) \/ AdminGQLThrows(r)

\* Every adminGQL call comes back in the end; the continuation of the handler
\* that awaits it is part of the same step.
Fairness == WF_vars(GatewayAnswers)

\* The inputs of the runs checked for termination: every kind of run (no
\* raw, no candidate, one candidate of each shape, several candidates).
FairInputs ==
    { <<>>, <<"h", "t", "t", "p", "s", ":", "/", "/">>, <<"1", "2", "3", "4", "5", "6", "7", "8">>, <<" ", "1", "2", "3", "4", "5", "6", " ">>, <<"A", "B", "-", "1", "2">>, <<"1", "2", "3">>,
      <<"h", "t", "t", "p", "s", ":", "/", "/", "d", ".", "r", "e", "/", "1", "2", "3", "?", "e", "a", "n", "=", "1", "2", "3", "4", "5", "6", "7", "8", "#", "c", "o", "d", "e", "=", "A", "B", "-", "1", "2">> }

InitFair == InitWith({1}, FairInputs)

FairSpec == InitFair /\ [][Next]_vars /\ Fairness

\* The inputs of the requests that run together.
ConcInputs == { <<>>, <<"1", "2", "3", "4", "5", "6">>, <<"h", "t", "t", "p", "s", ":", "/", "/", "d", ".", "r", "e", "/", "1", "2", "3", "?", "e", "a", "n", "=", "1", "2", "3", "4", "5", "6", "7", "8">> }

\* Two requests in progress at once, their steps interleaved at the awaits.
InitConc == InitWith({1, 2}, ConcInputs)

SpecConc == InitConc /\ [][Next]_vars

-----------------------------------------------------------------------------
(* Vocabulary of the properties                                            *)

Done(r) == pc[r] = "done"

HasHandle(o) == o.kind = "data" /\ o.handle # <<>>

GatewayFailed(o) == o.kind \in {"transport", "errors"}

\* The adminGQL calls request r has issued so far, the one in flight last.
Issued(r) ==
    [k \in 1..Len(calls[r]) |-> calls[r][k].call]
      \o (IF inflight[r] = NoCall THEN <<>> ELSE <<inflight[r]>>)

LastCall(r) == calls[r][Len(calls[r])]

\* Request r ended with a lookup that returned a handle.
Hit(r) == Done(r) /\ calls[r] # <<>> /\ HasHandle(LastCall(r).outcome)

\* Every call of request r returned data without a handle.
NoMatchNoFailure(r) ==
    \A k \in 1..Len(calls[r]) : calls[r][k].outcome = NoEdge

\* The candidates resolveHandleFromCode was called on in request r, in order.
Attempted(r) ==
    LET all == Issued(r)
    IN  IF all = <<>> THEN <<>> ELSE SubSeq(candidates[r], 1, all[Len(all)].cand)

\* decodeURIComponent, of the escapes encodeURIComponent produces here.
Escaped == {" ", "/", ":", "?", "=", "&", "#", "+", "%"}

RECURSIVE decodeURIComponent(_)
decodeURIComponent(s) ==
    IF s = <<>> THEN <<>>
    ELSE IF Head(s) = "%" /\ \E c \in Escaped : Escape(c) = SubSeq(s, 1, 3)
         THEN <<CHOOSE c \in Escaped : Escape(c) = SubSeq(s, 1, 3)>>
                \o decodeURIComponent(From(s, 4))
         ELSE <<Head(s)>> \o decodeURIComponent(Tail(s))

\* url is <storefront-base>/search?q=<the URL encoding of text>.
IsSearchUrlOf(url, text) ==
    LET prefix == Base \o <<"/", "s", "e", "a", "r", "c", "h", "?", "q", "=">>
        q      == From(url, Len(prefix) + 1)
    IN  /\ StartsWith(url, prefix)
        /\ AllIn(q, Unreserved \cup {"%"})
        /\ decodeURIComponent(q) = text

\* The part of s after its last "/" (all of s when it has none).
LastSegment(s) ==
    LET slashes == {i \in 1..Len(s) : s[i] = "/"}
    IN  IF slashes = {} THEN s
        ELSE From(s, (CHOOSE i \in slashes : \A j \in slashes : j <= i) + 1)

\* The position of a lookup in the cascade of section 4.4.
CascadeRank(st) ==
    CASE st = "barcode" -> 1 [] st = "sku" -> 2 [] st = "tag:model" -> 3
      [] st = "search:model" -> 4 [] st = "search:any" -> 5

ShapeHolds(st, c) ==
    CASE st = "barcode" -> isEAN(c) [] st = "sku" -> isSKU(c)
      [] st \in {"tag:model", "search:model"} -> isModel(c)
      [] st = "search:any" -> TRUE

CascadeNames == {"barcode", "sku", "tag:model", "search:model", "search:any"}

-----------------------------------------------------------------------------
(* Properties                                                              *)

\* C1: for a URL-shaped raw input that new URL() rejects, extractCandidates
\* returns a list that contains the trimmed raw string.
C1_MalformedUrlKeepsRaw ==
    \A r \in Requests :
        (/\ pc[r] # "start" /\ raw[r] # <<>>
         /\ isURL(Trim(raw[r])) /\ UrlThrows(Trim(raw[r])))
            => Trim(raw[r]) \in Range(candidates[r])

\* C2 as stated: when no call matched and none failed, /scan-lookup answers
\* handle null, source "fallback:search" and the search URL of the URL-encoded
\* original raw input.
C2_FallbackEncodesOriginalRaw ==
    \A r \in Requests :
        (Done(r) /\ op[r] = "scan-lookup" /\ raw[r] # <<>> /\ NoMatchNoFailure(r))
            => /\ response[r].handle = <<>>
               /\ response[r].source = "fallback:search"
               /\ IsSearchUrlOf(response[r].url, raw[r])

\* C2 amended: when no call matched and none failed, /scan-lookup answers
\* status 200, handle null, source "fallback:search" and the search URL of
\* the URL-encoded trimmed raw input.
C2_FallbackEncodesTrimmedRaw ==
    \A r \in Requests :
        (Done(r) /\ op[r] = "scan-lookup" /\ raw[r] # <<>> /\ NoMatchNoFailure(r))
            => /\ response[r].status = 200
               /\ response[r].handle = <<>>
               /\ response[r].source = "fallback:search"
               /\ response[r].url # <<>>
               /\ IsSearchUrlOf(response[r].url, Trim(raw[r]))

\* A padded input whose every lookup came back empty.
C2_Witness ==
    \E r \in Requests :
        /\ Done(r) /\ op[r] = "scan-lookup" /\ NoMatchNoFailure(r)
        /\ calls[r] # <<>>
        /\ Trim(raw[r]) # raw[r] /\ Trim(raw[r]) # <<>>
        /\ response[r].source = "fallback:search"

\* C3: the candidates are resolved in the order of extractCandidates, none
\* skipped; no call follows a call that returned a handle; and the answer is
\* that of the one call that returned a handle.
C3_FirstHitWins ==
    \A r \in Requests :
        LET all == Issued(r)
        IN  /\ \A k \in 1..Len(all) :
                /\ all[k].cand \in 1..Len(candidates[r])
                /\ k = 1 => all[k].cand = 1
                /\ k > 1 => all[k].cand \in {all[k-1].cand, all[k-1].cand + 1}
            /\ \A k \in 1..Len(calls[r]) :
                HasHandle(calls[r][k].outcome)
                    => /\ k = Len(all)
                       /\ Done(r)
                       /\ IF op[r] = "scan-lookup"
                          THEN /\ response[r].status = 200
                               /\ response[r].handle = calls[r][k].outcome.handle
                               /\ response[r].hasVariantId = calls[r][k].outcome.hasVariantId
                               /\ response[r].variantId = calls[r][k].outcome.variantId
                               /\ response[r].source = calls[r][k].call.strategy
                          ELSE /\ response[r].status = 302
                               /\ StartsWith(response[r].url,
                                      Base \o <<"/", "p", "r", "o", "d", "u", "c", "t", "s", "/">> \o calls[r][k].outcome.handle)
            /\ (Done(r) /\ response[r].handle # <<>>) => Hit(r)
            /\ (Done(r) /\ StartsWith(response[r].url, Base \o <<"/", "p", "r", "o", "d", "u", "c", "t", "s", "/">>)) => Hit(r)

\* The second candidate hit, after the first one was exhausted, and a third
\* candidate was never queried.
C3_Witness ==
    \E r \in Requests :
        /\ Hit(r)
        /\ LastCall(r).call.cand = 2
        /\ Len(candidates[r]) >= 3

\* C4: the calls for one candidate follow the order barcode, sku, tag:model,
\* search:model, search:any; each is issued only if its shape predicate holds
\* of the candidate and the calls before it returned no handle, none whose
\* predicate holds is skipped, each carries the query of its strategy, and a
\* Model-shaped and SKU-shaped candidate gets sku: before any Model lookup.
C4_CascadeOrder ==
    \A r \in Requests :
        LET all == Issued(r)
        IN  \A k \in 1..Len(all) :
                LET c     == Trim(candidates[r][all[k].cand])
                    st    == all[k].strategy
                    first == k = 1 \/ all[k-1].cand # all[k].cand
                    below == IF first THEN 0 ELSE CascadeRank(all[k-1].strategy)
                IN  /\ st \in CascadeNames
                    /\ ShapeHolds(st, c)
                    /\ below < CascadeRank(st)
                    /\ \A st2 \in CascadeNames :
                          (below < CascadeRank(st2) /\ CascadeRank(st2) < CascadeRank(st))
                              => ~ShapeHolds(st2, c)
                    /\ k > 1 => ~HasHandle(calls[r][k-1].outcome)
                    /\ (k > 1 /\ first) => all[k-1].strategy = "search:any"
                    /\ all[k].doc = (IF st \in {"barcode", "sku"}
                                     THEN "Q_VARIANT_BY_QUERY" ELSE "Q_PRODUCTS_BY_QUERY")
                    /\ all[k].q = (CASE st = "barcode" -> <<"b", "a", "r", "c", "o", "d", "e", ":">> \o c
                                     [] st = "sku" -> <<"s", "k", "u", ":">> \o c
                                     [] st = "tag:model" ->
                                          <<"t", "a", "g", ":">> \o <<"\"">> \o <<"M", "o", "d", "e", "l", ":", " ">> \o c \o <<"\"">>
                                     [] OTHER -> c)
                    /\ (st \in {"tag:model", "search:model"} /\ isSKU(c))
                          => \E k2 \in 1..(k-1) :
                                /\ all[k2].cand = all[k].cand
                                /\ all[k2].strategy = "sku"

\* An 8-digit candidate went through all five lookups, in order.
C4_Witness ==
    \E r \in Requests :
        /\ Len(calls[r]) >= 5
        /\ [k \in 1..5 |-> calls[r][k].call.strategy]
              = <<"barcode", "sku", "tag:model", "search:model", "search:any">>
        /\ \A k \in 1..5 : calls[r][k].call.cand = 1

\* C5: in /scan-lookup, once an adminGQL call has failed the request has
\* ended with status 500 and error "lookup_failed", without handle or URL.
C5_FailureIsLookupFailed ==
    \A r \in Requests :
        (op[r] = "scan-lookup" /\ \E k \in 1..Len(calls[r]) : GatewayFailed(calls[r][k].outcome))
            => /\ Done(r)
               /\ response[r].status = 500
               /\ response[r].error = "lookup_failed"
               /\ response[r].handle = <<>>
               /\ response[r].url = <<>>
               /\ response[r].source = ""

\* The failure came on a later lookup of the second candidate.
C5_Witness ==
    \E r \in Requests :
        /\ op[r] = "scan-lookup" /\ Done(r) /\ calls[r] # <<>>
        /\ GatewayFailed(LastCall(r).outcome)
        /\ LastCall(r).call.cand = 2
        /\ LastCall(r).call.strategy = "search:any"
        /\ Len(calls[r]) >= 3

\* C6: every run of /r on a raw input ends with a 302 redirect: to the
\* product URL of the lookup that returned a handle, else (candidates
\* exhausted, or an adminGQL call failed) to the search URL of the raw input.
C6_RedirectAlwaysNavigable ==
    \A r \in Requests :
        (op[r] = "r" /\ Done(r) /\ raw[r] # <<>>)
            => /\ response[r].status = 302
               /\ response[r].error = ""
               /\ IF calls[r] # <<>> /\ HasHandle(LastCall(r).outcome)
                  THEN StartsWith(response[r].url,
                           Base \o <<"/", "p", "r", "o", "d", "u", "c", "t", "s", "/">> \o LastCall(r).outcome.handle)
                  ELSE IsSearchUrlOf(response[r].url, Trim(raw[r]))

\* /r ended after an adminGQL call failed.
C6_Witness ==
    \E r \in Requests :
        /\ op[r] = "r" /\ Done(r) /\ calls[r] # <<>>
        /\ GatewayFailed(LastCall(r).outcome)
        /\ Len(calls[r]) >= 2
        /\ response[r].status = 302

\* C7: the list extractCandidates returns is in non-increasing score order,
\* and in it every EAN-shaped candidate precedes every other candidate.
C7_SortedByScore ==
    \A r \in Requests :
        \A i, j \in 1..Len(candidates[r]) :
            i < j => /\ score(candidates[r][i]) >= score(candidates[r][j])
                     /\ isEAN(candidates[r][j]) => isEAN(candidates[r][i])

\* The sort moved an EAN-shaped candidate in front of one extracted before it.
C7_Witness ==
    \E r \in Requests :
        /\ pc[r] # "start"
        /\ Len(candidates[r]) >= 2
        /\ candidates[r] # FromURL(Trim(raw[r]))
        /\ isEAN(candidates[r][1])
        /\ ~isEAN(candidates[r][Len(candidates[r])])

\* C8: every candidate extractCandidates returns is non-empty after trimming.
C8_CandidatesNonEmpty ==
    \A r \in Requests :
        \A i \in 1..Len(candidates[r]) : Trim(candidates[r][i]) # <<>>

\* C9: the tried list of every /scan-lookup result (success or fallback) is
\* the list of the candidates resolution was attempted on.
C9_TriedIsAttempted ==
    \A r \in Requests :
        (op[r] = "scan-lookup" /\ Done(r) /\ response[r].status = 200)
            => response[r].tried = Attempted(r)

\* C10 as stated: every successful result's url is
\* <base>/products/<handle>?variant=<last segment of variantId>, also for a
\* matched product without variant.
C10_UrlAlwaysHasVariant ==
    \A r \in Requests :
        Hit(r) => response[r].url =
                    Base \o <<"/", "p", "r", "o", "d", "u", "c", "t", "s", "/">> \o LastCall(r).outcome.handle
                         \o <<"?", "v", "a", "r", "i", "a", "n", "t", "=">> \o LastSegment(LastCall(r).outcome.variantId)

\* C10 amended: a successful result's url is
\* <base>/products/<handle>?variant=<last segment of variantId> when the
\* matching lookup returned a variantId with a non-empty last segment, and
\* <base>/products/<handle> otherwise.
C10_UrlVariantWhenPresent ==
    \A r \in Requests :
        Hit(r) =>
            LET o == LastCall(r).outcome
            IN  response[r].url =
                    IF o.hasVariantId /\ LastSegment(o.variantId) # <<>>
                    THEN Base \o <<"/", "p", "r", "o", "d", "u", "c", "t", "s", "/">> \o o.handle
                              \o <<"?", "v", "a", "r", "i", "a", "n", "t", "=">> \o LastSegment(o.variantId)
                    ELSE Base \o <<"/", "p", "r", "o", "d", "u", "c", "t", "s", "/">> \o o.handle

\* A product lookup matched a product that has no variant.
C10_Witness ==
    \E r \in Requests :
        /\ Hit(r)
        /\ ~LastCall(r).outcome.hasVariantId
        /\ LastCall(r).call.strategy \in {"tag:model", "search:model", "search:any"}

\* C11: the list extractCandidates returns holds no string twice.
C11_NoDuplicates ==
    \A r \in Requests :
        \A i, j \in 1..Len(candidates[r]) :
            i < j => candidates[r][i] # candidates[r][j]

\* The ean parameter and the last path segment of the URL carry the same
\* value, which is in the list.
C11_Witness ==
    \E r \in Requests :
        LET s    == Trim(raw[r])
            segs == FilterNonEmpty(Split(Pathname(s), "/"))
        IN  /\ pc[r] # "start" /\ raw[r] # <<>>
            /\ isURL(s) /\ ~UrlThrows(s)
            /\ segs # <<>>
            /\ segs[Len(segs)] = SearchParamsGet(s, <<"e", "a", "n">>)
            /\ segs[Len(segs)] \in Range(candidates[r])

\* C13: for a non-empty raw input whose trimmed form is not URL-shaped,
\* extractCandidates returns the one-element list of the trimmed raw input.
C13_NonUrlPassthrough ==
    \A r \in Requests :
        (pc[r] # "start" /\ raw[r] # <<>> /\ ~isURL(Trim(raw[r])))
            => candidates[r] = <<Trim(raw[r])>>

\* A padded Model- and SKU-shaped code came out trimmed.
C13_Witness ==
    \E r \in Requests :
        /\ pc[r] # "start"
        /\ ~isURL(Trim(raw[r]))
        /\ Trim(raw[r]) # raw[r]
        /\ isModel(Trim(raw[r])) /\ isSKU(Trim(raw[r]))
        /\ candidates[r] = <<Trim(raw[r])>>

\* C14: a request without raw input is answered 400 by both routes, with no
\* candidate extracted and no adminGQL call issued.
C14_MissingRawIsClientError ==
    \A r \in Requests :
        (pc[r] # "start" /\ raw[r] = <<>>)
            => /\ Done(r)
               /\ response[r].status = 400
               /\ response[r].error # ""
               /\ response[r].url = <<>>
               /\ candidates[r] = <<>>
               /\ Issued(r) = <<>>

\* /r answered 400 to a missing raw parameter.
C14_Witness ==
    \E r \in Requests :
        /\ op[r] = "r" /\ raw[r] = <<>> /\ Done(r)
        /\ response[r].status = 400

\* C15: a failed adminGQL call is the last call of its request: the request
\* has ended, and no lookup of the same or of a later candidate follows it.
C15_NoCallAfterFailure ==
    \A r \in Requests :
        \A k \in 1..Len(calls[r]) :
            GatewayFailed(calls[r][k].outcome)
                => /\ k = Len(Issued(r))
                   /\ Done(r)

\* The first lookup of the first candidate failed; lookups and candidates
\* were left.
C15_Witness ==
    \E r \in Requests :
        /\ Done(r) /\ Len(calls[r]) = 1
        /\ GatewayFailed(LastCall(r).outcome)
        /\ LastCall(r).call.strategy = "barcode"
        /\ Len(candidates[r]) >= 2

\* The strings of one repeated digit, up to one digit more than the longest EAN.
DigitStrings == {[i \in 1..n |-> d] : n \in 0..(EanLongMax + 1), d \in Digits}

\* C16: every Model-shaped string is SKU-shaped and every 8-digit string is
\* EAN-, SKU- and Model-shaped; no candidate has score 1; and a Model lookup
\* comes after the sku lookup of the same candidate returned no handle.
C16_ModelImpliesSku ==
    /\ \A s \in DigitStrings :
          /\ isModel(s) => isSKU(s)
          /\ Len(s) = 8 => (isEAN(s) /\ isSKU(s) /\ isModel(s))
          /\ score(s) # 1
    /\ \A r \in Requests :
          /\ \A i \in 1..Len(candidates[r]) :
                /\ isModel(candidates[r][i]) => isSKU(candidates[r][i])
                /\ score(candidates[r][i]) # 1
          /\ \A k \in 1..Len(Issued(r)) :
                Issued(r)[k].strategy \in {"tag:model", "search:model"}
                    => \E k2 \in 1..(k-1) :
                          /\ Issued(r)[k2].cand = Issued(r)[k].cand
                          /\ Issued(r)[k2].strategy = "sku"
                          /\ ~HasHandle(calls[r][k2].outcome)

\* A 6-digit candidate reached its tag lookup.
C16_Witness ==
    \E r \in Requests :
        \E k \in 1..Len(calls[r]) :
            /\ calls[r][k].call.strategy = "tag:model"
            /\ Len(Trim(candidates[r][calls[r][k].call.cand])) = 6
            /\ k >= 2 /\ calls[r][k-1].call.strategy = "sku"

\* C17: for a Model-shaped candidate, the search:model lookup that returned no
\* handle is followed at once by the search:any lookup with the same document
\* and the same query; search:any is never issued for it otherwise; so a hit
\* of search:any on it answers differently from the identical call before it.
C17_SameSearchTwice ==
    \A r \in Requests :
        LET all == Issued(r)
            model(k) == isModel(Trim(candidates[r][all[k].cand]))
        IN  /\ \A k \in 1..Len(calls[r]) :
                  (model(k) /\ all[k].strategy = "search:model"
                     /\ ~HasHandle(calls[r][k].outcome)
                     /\ ~GatewayFailed(calls[r][k].outcome))
                      => /\ k + 1 <= Len(all)
                         /\ all[k+1].strategy = "search:any"
                         /\ all[k+1].cand = all[k].cand
                         /\ all[k+1].doc = all[k].doc
                         /\ all[k+1].q = all[k].q
            /\ \A k \in 1..Len(all) :
                  (model(k) /\ all[k].strategy = "search:any")
                      => /\ k > 1
                         /\ all[k-1].strategy = "search:model"
                         /\ all[k-1].cand = all[k].cand
                         /\ all[k-1].doc = all[k].doc
                         /\ all[k-1].q = all[k].q
                         /\ ~HasHandle(calls[r][k-1].outcome)
                         /\ (k <= Len(calls[r]) /\ HasHandle(calls[r][k].outcome))
                                => calls[r][k].outcome # calls[r][k-1].outcome

\* search:any hit for a Model-shaped candidate.
C17_Witness ==
    \E r \in Requests :
        /\ Hit(r)
        /\ LastCall(r).call.strategy = "search:any"
        /\ isModel(Trim(candidates[r][LastCall(r).call.cand]))
        /\ Len(calls[r]) >= 2

\* The URL of s parsed, and holds no known parameter with a value, no
\* code-like last path segment and no matching fragment.
NoSource(s) ==
    LET segs == FilterNonEmpty(Split(Pathname(s), "/"))
        h    == Hash(s)
    IN  /\ \A i \in 1..Len(candKeys) : SearchParamsGet(s, candKeys[i]) = <<>>
        /\ (segs = <<>> \/ ~AllIn(segs[Len(segs)], CodeChars))
        /\ FragMatch(IF h = <<>> THEN h ELSE Tail(h)) = <<>>

OutcomesOf(r) == [k \in 1..Len(calls[r]) |-> calls[r][k].outcome]

\* A handler of route on rawv, run by itself from lookup k of candidate i on,
\* its adminGQL calls answered by outs in turn: the calls it issues and its
\* response (NoResponse while it waits for an answer outs does not hold).
RECURSIVE AloneFrom(_, _, _, _, _, _)
AloneFrom(route, rawv, cands, i, k, outs) ==
    LET i2 == NextCand(cands, i, k)
        j2 == IF i2 = i THEN NextStrategy(cands[i], k)
              ELSE IF i2 <= Len(cands) THEN NextStrategy(cands[i2], 0) ELSE 0
    IN  IF j2 = 0
        THEN [response |-> OnExhausted(route, rawv, cands), issued |-> <<>>]
        ELSE LET call == Call(i2, cands[i2], j2)
             IN  IF outs = <<>>
                 THEN [response |-> NoResponse, issued |-> <<call>>]
                 ELSE IF GatewayFailed(Head(outs))
                 THEN [response |-> OnCaught(route, rawv), issued |-> <<call>>]
                 ELSE IF Head(outs).handle # <<>>
                 THEN [response |-> OnFound(route, Head(outs), call.strategy, cands),
                       issued |-> <<call>>]
                 ELSE LET rest == AloneFrom(route, rawv, cands, i2, j2, Tail(outs))
                      IN  [response |-> rest.response, issued |-> <<call>> \o rest.issued]

Alone(route, rawv, outs) ==
    IF rawv = <<>>
    THEN [response |-> MissingRaw(route), issued |-> <<>>]
    ELSE AloneFrom(route, rawv, extractCandidates(rawv), 1, 0, outs)

\* C12: a request has at most one adminGQL call in flight, it is suspended
\* exactly while it has one, every call issued before has returned; and with
\* two requests interleaved each one issues the calls and gives the response
\* it would by itself, given the same answers to its calls.
C12_SequentialAndIsolated ==
    \A r \in Requests :
        /\ Len(Issued(r)) <= Len(calls[r]) + 1
        /\ pc[r] = "await" <=> inflight[r] # NoCall
        /\ pc[r] = "await" <=> Len(Issued(r)) = Len(calls[r]) + 1
        /\ pc[r] # "start" =>
              LET alone == Alone(op[r], raw[r], OutcomesOf(r))
              IN  /\ Issued(r) = alone.issued
                  /\ response[r] = alone.response
                  /\ Done(r) <=> response[r] # NoResponse

\* Both requests are suspended in the middle of their cascades, on
\* different inputs.
C12_Witness ==
    /\ Requests = {1, 2}
    /\ raw[1] # raw[2]
    /\ \A r \in Requests :
          /\ pc[r] = "await"
          /\ Len(calls[r]) >= 2

\* C19: if every adminGQL call comes back, a request a handler has taken up
\* comes to an end; it has then given its one response, which never changes;
\* and it issues at most 5 adminGQL calls for one candidate, at most 5 times
\* the number of candidates in all.
C19_Terminates ==
    /\ (\E r \in Requests : pc[r] # "start") ~> (\A r \in Requests : Done(r))
    /\ [](\A r \in Requests :
            /\ Done(r) <=> response[r] # NoResponse
            /\ Len(Issued(r)) <= 5 * Len(candidates[r])
            /\ \A i \in 1..Len(candidates[r]) :
                  Cardinality({k \in 1..Len(Issued(r)) : Issued(r)[k].cand = i}) <= 5)
    /\ [][\A r \in Requests :
            Done(r) => (pc'[r] = "done" /\ response'[r] = response[r])]_vars

\* A request ended after 5 adminGQL calls for its single candidate.
C19_Witness ==
    \E r \in Requests :
        /\ Done(r)
        /\ Len(candidates[r]) = 1
        /\ Len(calls[r]) = 5
        /\ response[r] # NoResponse

====
